---------------------------- MODULE Spec2Model ----------------------------
(***************************************************************************)
(* Model of the agent orchestration layer: AgentOrchestrator and the three *)
(* collaborators it drives (ModelManager, ToolSystem, MemorySystem).       *)
(*                                                                         *)
(* One execute(request) call is one asynchronous function.  Between two    *)
(* awaits its code runs without interruption, so every action below is one *)
(* such run: it starts where the previous await resolved and ends at the   *)
(* next await (or at the function's return, finally block included).       *)
(* cancel(requestId) has no await in its body and is one action.           *)
(***************************************************************************)
EXTENDS Integers, Sequences, FiniteSets, TLC

(***************************************************************************)
(* Bounds of the model and the small input sets.                           *)
(***************************************************************************)
MaxCalls == 2                       \* execute calls submitted in one behaviour
MaxStored == 2                      \* interactions stored per conversation (MemorySpec)
MaxClock == 2                       \* how far Date.now() advances (MemorySpec)
MaxClears == 1                      \* clearMemory calls (MemorySpec)
MaxEntries == 11                    \* knowledge entries stored (SearchSpec)
MaxOps == 3                         \* calls of AgentService's functions (AgentSpec)

Ids == {"r1", "r2"}                 \* request ids the callers use
ReqTypes == {"chat", "debug"}       \* request.type values submitted
ModelOptions == {"none"}            \* request.options.model ("none": not given)

AgentIds == {"a1", "a2"}            \* agent ids generateAgentId gives out
ComponentSetups == {0, 1, 2, 4}     \* components created by initializeComponents
ProviderSetups == {0, 7}            \* providers registered by initializeProviders

(***************************************************************************)
(* Values.                                                                 *)
(***************************************************************************)
NoModel == [name |-> "none", provider |-> "none"]

\* the fetch of /api/tags failed
OllamaDown == [ok |-> FALSE, models |-> <<>>]

\* getConversationHistory and searchRelevantKnowledge have not been called
NothingReturned == [x \in Ids |-> [history |-> <<>>, clears |-> 0]]

NothingFound == [query |-> <<>>, results |-> <<>>]

AbortMessage == "This operation was aborted"

VARIABLES
    initialized,     \* how many of modelManager, toolSystem, memorySystem, ui exist
    providers,       \* ModelManager.providers: provider names in insertion order
    currentModel,    \* ModelManager.currentModel
    activeRequests,  \* AgentOrchestrator.activeRequests: id -> AbortController
    aborted,         \* the AbortControllers whose signal is aborted
    calls,           \* the execute calls made so far, each with its position
    events,          \* what the three emitters fired, in firing order
    conversations,   \* MemorySystem.conversations: id -> messages
    memory,          \* MemorySystem.memory: knowledge entries in insertion order
    lastCancel,      \* the cancel call just made and how it ended, if it was the last step
    cancelledAt,     \* for each execute call that was in flight when cancel was called
                     \* with its id: whether its model call was still to settle
                     \* ("pending") or had answered ("answered") at the first such cancel
    ollamaTags,      \* what the Ollama endpoint answers to GET /api/tags
    apiKeys,         \* the providers that have an API key configured
    enabledTools,    \* configuration value agent.tools.enabled
    fileWrites,      \* how fileService.writeFile settles: "ok", "fails" or "never"
    clock,           \* Date.now()
    clears,          \* how many times clearMemory has run
    returned,        \* per id, the history getConversationHistory returned last and
                     \* the value of clears at that time
    found,           \* the last searchRelevantKnowledge call: its query and its result
    agents,          \* AgentService._agents: the registered agent ids
    activeAgents,    \* AgentService._activeAgents
    created,         \* the agent ids generateAgentId has given out
    isRunning,       \* Agent._isRunning of each agent
    currentTask,     \* Agent._currentTask of each agent (NoTask: undefined)
    initializeCalls, \* per agent, the calls of initialize() since it was last stopped
    startedFired,    \* per agent, how often onAgentStarted fired since it was last stopped
    ops,             \* the calls of the asynchronous functions of AgentService
    startedTasks,    \* the tasks taskManager.startTask was called for
    stoppedTasks     \* the tasks taskManager.stopTask was called for

\* the surroundings the program reads and never writes
env == <<ollamaTags, apiKeys, enabledTools, fileWrites>>

\* what only the operations of the memory system change
memvars == <<clock, clears, returned, found>>

\* the state of AgentService and its agents
agentService ==
    <<agents, activeAgents, created, isRunning, currentTask, initializeCalls,
      startedFired, ops, startedTasks, stoppedTasks>>

\* the state of the orchestrator, which the memory system never touches
orchestrator ==
    <<initialized, providers, currentModel, activeRequests, aborted, calls, events,
      lastCancel, cancelledAt>>

vars == <<initialized, providers, currentModel, activeRequests, aborted,
          calls, events, conversations, memory, lastCancel, cancelledAt, env, memvars, agentService>>

(***************************************************************************)
(* ModelManager: providers, listings, selection.                           *)
(***************************************************************************)
ProviderNames ==
    <<"huggingface", "ollama", "openai", "anthropic", "google", "azure", "openrouter">>

HuggingFaceModels == <<"codellama", "starcoder", "deepseek-coder">>

\* OllamaProvider.listModels: the names the endpoint reports, none when the
\* fetch fails
OllamaModels == IF ollamaTags.ok THEN ollamaTags.models ELSE <<>>

OpenAIModels == <<"gpt-4o", "gpt-4-turbo", "gpt-3.5-turbo">>

\* provider.listModels(): the model names a provider lists, in listing order
ListModels(p) ==
    CASE p = "huggingface" -> HuggingFaceModels
      [] p = "ollama" -> OllamaModels
      [] p = "openai" -> OpenAIModels
      [] OTHER -> <<>>

\* provider.isAvailable()
IsAvailable(p) ==
    CASE p = "huggingface" -> "huggingface" \in apiKeys
      [] p = "ollama" -> ollamaTags.ok
      [] p = "openai" -> "openai" \in apiKeys
      [] OTHER -> FALSE

\* String.prototype.includes over the model names of the listings: the pairs
\* <<part, whole>> where part is a proper substring of whole.
ProperSubstrings ==
    {<<"codellama", "codellama:13b">>, <<"gpt-4", "gpt-4o">>, <<"gpt-4", "gpt-4-turbo">>,
     <<"codellama", "codellama:7b">>, <<"codellama", "codellama:7b-instruct">>,
     <<"codellama:7b", "codellama:7b-instruct">>}

Includes(whole, part) == whole = part \/ <<part, whole>> \in ProperSubstrings

\* models.find(m => m.name === modelName || m.name.includes(modelName))
Matches(name, modelName) == name = modelName \/ Includes(name, modelName)

FirstMatch(listing, modelName) ==
    LET hits == {i \in 1 .. Len(listing) : Matches(listing[i], modelName)}
    IN IF hits = {} THEN 0 ELSE CHOOSE i \in hits : \A j \in hits : i <= j

\* the search given up at a provider whose listing failed
RECURSIVE FindModelFromStopsAtFailure(_, _, _)
FindModelFromStopsAtFailure(provs, k, modelName) ==
    IF k > Len(provs) THEN NoModel
    ELSE IF provs[k] = "ollama" /\ ~ollamaTags.ok THEN NoModel
    ELSE LET listing == ListModels(provs[k])
             i == FirstMatch(listing, modelName)
         IN IF i # 0 THEN [name |-> listing[i], provider |-> provs[k]]
            ELSE FindModelFromStopsAtFailure(provs, k + 1, modelName)

RECURSIVE FindModelFrom(_, _, _)
FindModelFrom(provs, k, modelName) ==
    IF k > Len(provs) THEN NoModel
    ELSE LET listing == ListModels(provs[k])
             i == FirstMatch(listing, modelName)
         IN IF i # 0 THEN [name |-> listing[i], provider |-> provs[k]]
            ELSE FindModelFrom(provs, k + 1, modelName)

findModel(provs, modelName) == FindModelFrom(provs, 1, modelName)

RECURSIVE AvailableFrom(_, _)
AvailableFrom(provs, k) ==
    IF k > Len(provs) THEN <<>>
    ELSE LET listing == ListModels(provs[k])
             here == IF IsAvailable(provs[k])
                     THEN [i \in 1 .. Len(listing) |->
                             [name |-> listing[i], provider |-> provs[k]]]
                     ELSE <<>>
         IN here \o AvailableFrom(provs, k + 1)

getAvailableModels(provs) == AvailableFrom(provs, 1)

taskModelMap(taskType) ==
    CASE taskType = "conversational" -> <<"gpt-4o", "claude-3-5-sonnet", "gemini-pro", "codellama">>
      [] taskType = "instruction" -> <<"codellama", "starcoder", "deepseek-coder", "gpt-4o">>
      [] taskType = "analytical" -> <<"claude-3-5-sonnet", "gpt-4o", "gemini-pro", "codellama:13b">>
      [] taskType = "code" -> <<"codellama", "starcoder", "deepseek-coder", "gpt-4o">>
      [] taskType = "debugging" -> <<"codellama", "starcoder", "gpt-4o", "claude-3-5-sonnet">>
      [] taskType = "testing" -> <<"codellama", "gpt-4o", "claude-3-5-sonnet", "starcoder">>
      [] OTHER -> <<"codellama", "gpt-4o", "claude-3-5-sonnet", "gemini-pro">>

\* the loops swapped: provider by provider, the first name of the table it lists
RECURSIVE FirstListedProviderFirst(_, _, _)
FirstListedProviderFirst(provs, names, k) ==
    IF k > Len(provs) THEN NoModel
    ELSE LET hits == {i \in DOMAIN names : findModel(<<provs[k]>>, names[i]) # NoModel}
         IN IF hits # {}
            THEN findModel(<<provs[k]>>, names[CHOOSE i \in hits : \A j \in hits : i <= j])
            ELSE FirstListedProviderFirst(provs, names, k + 1)

RECURSIVE FirstListed(_, _, _)
FirstListed(provs, names, k) ==
    IF k > Len(names) THEN NoModel
    ELSE LET m == findModel(provs, names[k])
         IN IF m # NoModel THEN m ELSE FirstListed(provs, names, k + 1)

selectModelByTaskTypeDefaults(provs, taskType) ==
    LET m == FirstListed(provs, taskModelMap(taskType), 1)
        all == getAvailableModels(provs)
    IN IF m # NoModel THEN m
       ELSE IF Len(all) > 0 THEN all[1]
       ELSE [name |-> "codellama", provider |-> "huggingface"]

\* NoModel stands for the thrown Error('No models available')
selectModelByTaskType(provs, taskType) ==
    LET m == FirstListed(provs, taskModelMap(taskType), 1)
        all == getAvailableModels(provs)
    IN IF m # NoModel THEN m
       ELSE IF Len(all) > 0 THEN all[1]
       ELSE NoModel

ModelManager_selectModel(provs, taskType, preferredModel) ==
    LET preferred == IF preferredModel # "none"
                     THEN findModel(provs, preferredModel)
                     ELSE NoModel
    IN IF preferred # NoModel THEN preferred
       ELSE selectModelByTaskType(provs, taskType)

\* AgentOrchestrator.selectModel: request type -> task type
TaskTypeOf(type) ==
    CASE type = "chat" -> "conversational"
      [] type = "command" -> "instruction"
      [] type = "analysis" -> "analytical"
      [] type = "refactor" -> "code"
      [] type = "debug" -> "debugging"
      [] type = "test" -> "testing"
      [] OTHER -> "general"

(***************************************************************************)
(* ToolSystem: the registry and the eligibility filter.                    *)
(***************************************************************************)
\* this.tools in registration order (three of the sixteen registered tools)
Tools ==
    << [name |-> "read_file", capabilities |-> {"fileops", "analysis", "general"}],
       [name |-> "search_code", capabilities |-> {"code", "search", "analysis"}],
       [name |-> "database_query", capabilities |-> {"database"}] >>

capabilityMap(type) ==
    CASE type = "chat" -> {"chat", "general"}
      [] type = "command" -> {"fileops", "terminal", "code", "general"}
      [] type = "analysis" -> {"analysis", "code", "search", "general"}
      [] type = "refactor" -> {"fileops", "code", "analysis", "general"}
      [] type = "debug" -> {"debug", "code", "terminal", "analysis", "general"}
      [] type = "test" -> {"testing", "code", "terminal", "general"}
      [] OTHER -> {"general"}

toolCapabilitiesMatchRequest(tool, type) ==
    tool.capabilities \cap capabilityMap(type) # {}

ToolPassesEnabledOverrides(tool, enabled, type) ==
    IF enabled # {} THEN tool.name \in enabled
    ELSE toolCapabilitiesMatchRequest(tool, type)

ToolPasses(tool, enabled, type) ==
    /\ ~(tool.name \notin enabled /\ enabled # {})
    /\ toolCapabilitiesMatchRequest(tool, type)

\* Array.from(this.tools.values()).filter(...): registration order is kept
getToolsForRequest(type) ==
    SelectSeq(Tools, LAMBDA t : ToolPasses(t, enabledTools, type))

(***************************************************************************)
(* AgentOrchestrator.                                                      *)
(***************************************************************************)
Requests == [id : Ids, type : ReqTypes, model : ModelOptions]

\* Map.set / Map.delete on activeRequests
MapSet(m, k, v) == [x \in DOMAIN m \cup {k} |-> IF x = k THEN v ELSE m[x]]

MapDelete(m, k) == [x \in DOMAIN m \ {k} |-> m[x]]

EmptyMap == [x \in {} |-> 0]

NoResponse ==
    [id |-> <<>>, requestId |-> "none", content |-> <<>>, tools |-> <<>>,
     error |-> "none", metadata |-> NoModel, keys |-> {}]

SuccessResponseFromCurrentModel(call, content) ==
    [id |-> <<call.req.id, "response">>, requestId |-> call.req.id,
     content |-> content, tools |-> call.toolResults, error |-> "none",
     metadata |-> [name |-> currentModel, provider |-> call.model.provider],
     keys |-> {"tools", "metadata"}]

\* the response object built on the success path
SuccessResponse(call, content) ==
    [id |-> <<call.req.id, "response">>, requestId |-> call.req.id,
     content |-> content, tools |-> call.toolResults, error |-> "none",
     metadata |-> call.model, keys |-> {"tools", "metadata"}]

ErrorResponseWithTools(call, message) ==
    [id |-> <<call.req.id, "error">>, requestId |-> call.req.id,
     content |-> <<>>, tools |-> call.toolResults, error |-> message,
     metadata |-> call.model, keys |-> {"error", "tools", "metadata"}]

ErrorResponseWrongId(call, message) ==
    [id |-> <<call.req.id, "error">>, requestId |-> "error",
     content |-> <<>>, tools |-> <<>>, error |-> message,
     metadata |-> NoModel, keys |-> {"error"}]

ErrorResponseNoMessage(call, message) ==
    [id |-> <<call.req.id, "error">>, requestId |-> call.req.id,
     content |-> <<>>, tools |-> <<>>, error |-> "none",
     metadata |-> NoModel, keys |-> {}]

\* the errorResponse object built in the catch block
ErrorResponse(call, message) ==
    [id |-> <<call.req.id, "error">>, requestId |-> call.req.id,
     content |-> <<>>, tools |-> <<>>, error |-> message,
     metadata |-> NoModel, keys |-> {"error"}]

\* what a listener of an emitter is handed, with the getStatus().activeRequests
\* it reads while the event is being fired
Fired(kind, id, c, active) ==
    [kind |-> kind, id |-> id, call |-> c, active |-> DOMAIN active]

getStatus ==
    [isActive |-> DOMAIN activeRequests # {},
     activeRequests |-> DOMAIN activeRequests,
     currentModel |-> currentModel]

TypeErrorMessage == "Cannot read properties of undefined"

NoModelsMessage == "No models available"

NoCancel == [id |-> "none", found |-> FALSE, outcome |-> "none"]

Running(c) == c \in DOMAIN calls /\ calls[c].pc # "done"

Stage(c) ==
    IF calls[c].pc \in {"enhanceResponse", "storeInteraction"}
    THEN "answered" ELSE "pending"

NoTask == 0

AgentServiceInit ==
    /\ agents = {}
    /\ activeAgents = {}
    /\ created = {}
    /\ isRunning = [a \in AgentIds |-> FALSE]
    /\ currentTask = [a \in AgentIds |-> NoTask]
    /\ initializeCalls = [a \in AgentIds |-> 0]
    /\ startedFired = [a \in AgentIds |-> 0]
    /\ ops = <<>>
    /\ startedTasks = {}
    /\ stoppedTasks = {}

Init ==
    /\ initialized \in ComponentSetups
    /\ \E n \in ProviderSetups :
         /\ initialized = 0 => n = 0
         /\ providers = SubSeq(ProviderNames, 1, n)
    /\ currentModel = "none"
    /\ activeRequests = EmptyMap
    /\ aborted = {}
    /\ calls = <<>>
    /\ events = <<>>
    /\ conversations = [x \in Ids |-> <<>>]
    /\ memory = <<>>
    /\ lastCancel = NoCancel
    /\ cancelledAt = EmptyMap
    /\ ollamaTags = OllamaDown
    /\ apiKeys = {"huggingface", "openai"}
    /\ enabledTools = {}
    /\ fileWrites = "ok"
    /\ clock = 0
    /\ clears = 0
    /\ returned = NothingReturned
    /\ found = NothingFound
    /\ AgentServiceInit

ExecuteWhenIdle(r) ==
    /\ Len(calls) < MaxCalls
    /\ DOMAIN activeRequests = {}
    /\ LET c == Len(calls) + 1
           active == MapSet(activeRequests, r.id, c)
       IN /\ activeRequests' = active
          /\ events' = Append(events, Fired("start", r.id, c, active))
          /\ calls' = Append(calls,
                 [req |-> r, pc |-> "selectModel", model |-> NoModel,
                  history |-> <<>>, tools |-> <<>>, invoked |-> <<>>,
                  toolResults |-> <<>>, output |-> <<>>, response |-> NoResponse,
                  returns |-> 0])
    /\ UNCHANGED <<initialized, providers, currentModel, aborted, conversations, memory>>
    /\ lastCancel' = NoCancel /\ UNCHANGED <<cancelledAt, env, memvars, agentService>>

\* execute(request) up to its first await: register the controller, fire
\* onDidStartRequest, call selectModel
Execute(r) ==
    /\ Len(calls) < MaxCalls
    /\ LET c == Len(calls) + 1
           active == MapSet(activeRequests, r.id, c)
       IN /\ activeRequests' = active
          /\ events' = Append(events, Fired("start", r.id, c, active))
          /\ calls' = Append(calls,
                 [req |-> r, pc |-> "selectModel", model |-> NoModel,
                  history |-> <<>>, tools |-> <<>>, invoked |-> <<>>,
                  toolResults |-> <<>>, output |-> <<>>, response |-> NoResponse,
                  returns |-> 0])
    /\ UNCHANGED <<initialized, providers, currentModel, aborted, conversations, memory>>
    /\ lastCancel' = NoCancel /\ UNCHANGED <<cancelledAt, env, memvars, agentService>>

ReturnFireBeforeDelete(c, response, fired) ==
    LET id == calls[c].req.id
    IN /\ calls' = [calls EXCEPT ![c].pc = "done", ![c].response = response,
                                  ![c].returns = @ + 1]
       /\ activeRequests' = MapDelete(activeRequests, id)
       /\ events' = events \o fired \o <<Fired("end", id, c, activeRequests)>>

ReturnEndFirst(c, response, fired) ==
    LET id == calls[c].req.id
        active == MapDelete(activeRequests, id)
    IN /\ calls' = [calls EXCEPT ![c].pc = "done", ![c].response = response,
                                  ![c].returns = @ + 1]
       /\ activeRequests' = active
       /\ events' = events \o <<Fired("end", id, c, active)>> \o fired

ReturnNoDelete(c, response, fired) ==
    LET id == calls[c].req.id
    IN /\ calls' = [calls EXCEPT ![c].pc = "done", ![c].response = response,
                                  ![c].returns = @ + 1]
       /\ activeRequests' = activeRequests
       /\ events' = events \o fired \o <<Fired("end", id, c, activeRequests)>>

\* the way out of execute: the events of the path taken, in `fired`, then the
\* finally block: activeRequests.delete(request.id), onDidEndRequest.fire
Return(c, response, fired) ==
    LET id == calls[c].req.id
        active == MapDelete(activeRequests, id)
    IN /\ calls' = [calls EXCEPT ![c].pc = "done", ![c].response = response,
                                  ![c].returns = @ + 1]
       /\ activeRequests' = active
       /\ events' = events \o fired \o <<Fired("end", id, c, active)>>

FailFiresResponse(c, message) ==
    Return(c, ErrorResponse(calls[c], message),
           <<Fired("response", calls[c].req.id, c, activeRequests)>>)

\* the catch block of execute, then the finally block
Fail(c, message) == Return(c, ErrorResponse(calls[c], message), <<>>)

\* await this.selectModel(request) settles; on success gatherContext is called
\* and reads the conversation of the request id
SelectModelDone(c) ==
    /\ Running(c) /\ calls[c].pc = "selectModel"
    /\ LET req == calls[c].req
           m == ModelManager_selectModel(providers, TaskTypeOf(req.type), req.model)
       IN IF initialized < 1
          THEN Fail(c, TypeErrorMessage) /\ UNCHANGED currentModel
          ELSE IF m = NoModel
          THEN Fail(c, NoModelsMessage) /\ UNCHANGED currentModel
          ELSE /\ currentModel' = m.name
               /\ calls' = [calls EXCEPT ![c].pc = "gatherContext",
                                         ![c].model = m,
                                         ![c].history = conversations[req.id]]
               /\ UNCHANGED <<activeRequests, events>>
    /\ UNCHANGED <<initialized, providers, aborted, conversations, memory>>
    /\ lastCancel' = NoCancel /\ UNCHANGED <<cancelledAt, env, memvars, agentService>>

\* await this.gatherContext(request) settles; prepareModelRequest is called
GatherContextDone(c) ==
    /\ Running(c) /\ calls[c].pc = "gatherContext"
    /\ IF initialized < 3
       THEN Fail(c, TypeErrorMessage)
       ELSE /\ calls' = [calls EXCEPT ![c].pc = "prepareModelRequest"]
            /\ UNCHANGED <<activeRequests, events>>
    /\ UNCHANGED <<initialized, providers, currentModel, aborted, conversations, memory>>
    /\ lastCancel' = NoCancel /\ UNCHANGED <<cancelledAt, env, memvars, agentService>>

AllRemainingTools(tools, k) ==
    IF k \in DOMAIN tools THEN SubSeq(tools, k, Len(tools)) ELSE <<>>

\* for (const tool of tools): the k-th tool, which the loop invokes next, if there
\* is one
NextTool(tools, k) == IF k \in DOMAIN tools THEN <<tools[k]>> ELSE <<>>

\* await this.prepareModelRequest(...) resolves; executeTools is called, which
\* picks the tools of the request and invokes the first one
PrepareModelRequestDone(c) ==
    /\ Running(c) /\ calls[c].pc = "prepareModelRequest"
    /\ LET tools == IF initialized < 2 THEN <<>>
                    ELSE getToolsForRequest(calls[c].req.type)
       IN calls' = [calls EXCEPT ![c].pc = "executeTools",
                                 ![c].tools = tools,
                                 ![c].invoked = NextTool(tools, 1)]
    /\ UNCHANGED <<initialized, providers, currentModel, activeRequests, aborted,
                   events, conversations, memory>>
    /\ lastCancel' = NoCancel /\ UNCHANGED <<cancelledAt, env, memvars, agentService>>

\* the record executeTools pushes for a tool that returned, or that threw
ToolRecord(tool, ok) ==
    IF ok THEN [name |-> tool.name, result |-> "result", error |-> "none"]
    ELSE [name |-> tool.name, result |-> "null", error |-> "Tool execution failed"]

ExecuteToolDoneRethrows(c, ok) ==
    /\ Running(c) /\ calls[c].pc = "executeTools"
    /\ Len(calls[c].toolResults) < Len(calls[c].tools)
    /\ LET k == Len(calls[c].toolResults) + 1
           tool == calls[c].tools[k]
       IN IF ok
          THEN /\ calls' = [calls EXCEPT
                              ![c].toolResults = Append(@, ToolRecord(tool, ok)),
                              ![c].invoked = @ \o NextTool(calls[c].tools, k + 1)]
               /\ UNCHANGED <<activeRequests, events>>
          ELSE Fail(c, "Tool execution failed")
    /\ UNCHANGED <<initialized, providers, currentModel, aborted, conversations, memory>>
    /\ lastCancel' = NoCancel /\ UNCHANGED <<cancelledAt, env, memvars, agentService>>

\* await this.toolSystem.executeTool(tool, request) settles inside the loop of
\* executeTools: the record of the tool is pushed and the next tool, if any, is
\* invoked
ExecuteToolDone(c, ok) ==
    /\ Running(c) /\ calls[c].pc = "executeTools"
    /\ Len(calls[c].toolResults) < Len(calls[c].tools)
    /\ LET k == Len(calls[c].toolResults) + 1
           tool == calls[c].tools[k]
       IN calls' = [calls EXCEPT
                      ![c].toolResults = Append(@, ToolRecord(tool, ok)),
                      ![c].invoked = @ \o NextTool(calls[c].tools, k + 1)]
    /\ UNCHANGED <<initialized, providers, currentModel, activeRequests, aborted,
                   events, conversations, memory>>
    /\ lastCancel' = NoCancel /\ UNCHANGED <<cancelledAt, env, memvars, agentService>>

ExecuteToolsDoneEarly(c) ==
    /\ Running(c) /\ calls[c].pc = "executeTools"
    /\ IF initialized < 2
       THEN Fail(c, TypeErrorMessage)
       ELSE /\ calls' = [calls EXCEPT ![c].pc = "modelCall"]
            /\ UNCHANGED <<activeRequests, events>>
    /\ UNCHANGED <<initialized, providers, currentModel, aborted, conversations, memory>>
    /\ lastCancel' = NoCancel /\ UNCHANGED <<cancelledAt, env, memvars, agentService>>

\* await this.executeTools(request) settles; modelManager.execute is called with
\* the signal of the controller
ExecuteToolsDone(c) ==
    /\ Running(c) /\ calls[c].pc = "executeTools"
    /\ Len(calls[c].toolResults) = Len(calls[c].tools)
    /\ IF initialized < 2
       THEN Fail(c, TypeErrorMessage)
       ELSE /\ calls' = [calls EXCEPT ![c].pc = "modelCall"]
            /\ UNCHANGED <<activeRequests, events>>
    /\ UNCHANGED <<initialized, providers, currentModel, aborted, conversations, memory>>
    /\ lastCancel' = NoCancel /\ UNCHANGED <<cancelledAt, env, memvars, agentService>>

SeqRange(q) == {q[i] : i \in DOMAIN q}

\* how provider.execute(request, options) can settle: HuggingFaceProvider never
\* reads options.signal; OllamaProvider and OpenAIProvider hand it to fetch, which
\* rejects once the signal is aborted; the other providers throw
ProviderExecute(provider, signalAborted) ==
    CASE provider = "huggingface" ->
           {[ok |-> TRUE, text |-> "Hugging Face response"]}
      [] provider \in {"ollama", "openai"} ->
           IF signalAborted
           THEN {[ok |-> FALSE, text |-> AbortMessage]}
           ELSE {[ok |-> TRUE, text |-> "answer"], [ok |-> FALSE, text |-> "API error"]}
      [] OTHER -> {[ok |-> FALSE, text |-> "provider not implemented"]}

ModelManager_execute(provs, provider, signalAborted) ==
    IF provider \notin SeqRange(provs)
    THEN {[ok |-> FALSE, text |-> "Provider not found"]}
    ELSE ProviderExecute(provider, signalAborted)

\* await this.modelManager.execute(...) settles; on success enhanceResponse is called
ModelCallDone(c, outcome) ==
    /\ Running(c) /\ calls[c].pc = "modelCall"
    /\ outcome \in ModelManager_execute(providers, calls[c].model.provider, c \in aborted)
    /\ IF outcome.ok
       THEN /\ calls' = [calls EXCEPT ![c].pc = "enhanceResponse",
                                      ![c].output = <<outcome.text>>]
            /\ UNCHANGED <<activeRequests, events>>
       ELSE Fail(c, outcome.text)
    /\ UNCHANGED <<initialized, providers, currentModel, aborted, conversations, memory>>
    /\ lastCancel' = NoCancel /\ UNCHANGED <<cancelledAt, env, memvars, agentService>>

RECURSIVE ToolLines(_)
ToolLines(results) ==
    IF results = <<>> THEN <<>>
    ELSE LET t == Head(results)
         IN <<t.name, IF t.error # "none" THEN t.error ELSE t.result>>
            \o ToolLines(Tail(results))

\* enhanceResponse: the model's content, then the tool results if there are any
enhanceResponse(output, toolResults) ==
    IF Len(toolResults) > 0
    THEN output \o <<"Tool Results:">> \o ToolLines(toolResults)
    ELSE output

PushedAssistantFirst(messages, userContent, assistantContent, now) ==
    messages \o <<[role |-> "assistant", content |-> assistantContent, timestamp |-> now],
                  [role |-> "user", content |-> userContent, timestamp |-> now]>>

PushedInFront(messages, userContent, assistantContent, now) ==
    <<[role |-> "user", content |-> userContent, timestamp |-> now],
      [role |-> "assistant", content |-> assistantContent, timestamp |-> now]>>
    \o messages

\* storeInteraction: conversation.messages.push of the user message and of the
\* assistant message, each stamped with Date.now()
Pushed(messages, userContent, assistantContent, now) ==
    messages \o <<[role |-> "user", content |-> userContent, timestamp |-> now],
                  [role |-> "assistant", content |-> assistantContent, timestamp |-> now]>>

\* extractKnowledge: the entry put into this.memory
KnowledgeEntry(requestContent, responseContent) ==
    [type |-> "knowledge", request |-> requestContent, response |-> responseContent]

\* await this.enhanceResponse(...) resolves; storeInteraction is called and pushes
\* the two messages and the knowledge entry
EnhanceResponseDone(c) ==
    /\ Running(c) /\ calls[c].pc = "enhanceResponse"
    /\ LET req == calls[c].req
           content == enhanceResponse(calls[c].output, calls[c].toolResults)
       IN /\ calls' = [calls EXCEPT ![c].pc = "storeInteraction", ![c].output = content]
          /\ conversations' = [conversations EXCEPT ![req.id] =
                 Pushed(@, <<req.id, "content">>, content, clock)]
          /\ memory' = Append(memory, KnowledgeEntry(<<req.id, "content">>, content))
    /\ UNCHANGED <<initialized, providers, currentModel, activeRequests, aborted, events>>
    /\ lastCancel' = NoCancel /\ UNCHANGED <<cancelledAt, env, memvars, agentService>>

StoreInteractionDonePropagates(c) ==
    /\ Running(c) /\ calls[c].pc = "storeInteraction"
    /\ \/ Return(c, SuccessResponse(calls[c], calls[c].output),
                 <<Fired("response", calls[c].req.id, c, activeRequests)>>)
       \/ Fail(c, "API error")
    /\ UNCHANGED <<initialized, providers, currentModel, aborted, conversations, memory>>
    /\ lastCancel' = NoCancel /\ UNCHANGED <<cancelledAt, env, memvars, agentService>>

StoreInteractionDoneUncaught(c) ==
    /\ Running(c) /\ calls[c].pc = "storeInteraction"
    /\ fileWrites # "never"
    /\ IF fileWrites = "fails"
       THEN Fail(c, "Unable to write file")
       ELSE Return(c, SuccessResponse(calls[c], calls[c].output),
                   <<Fired("response", calls[c].req.id, c, activeRequests)>>)
    /\ UNCHANGED <<initialized, providers, currentModel, aborted, conversations, memory>>
    /\ lastCancel' = NoCancel /\ UNCHANGED <<cancelledAt, env, memvars, agentService>>

\* await this.memorySystem.storeInteraction(...) resolves: it awaits persistMemory,
\* which awaits fileService.writeFile, so it resolves once the write has settled,
\* and it resolves whether the write succeeded or failed, persistMemory and
\* storeInteraction both catching what is thrown; the response is built,
\* onDidReceiveResponse fires, execute returns
StoreInteractionDone(c) ==
    /\ Running(c) /\ calls[c].pc = "storeInteraction"
    /\ fileWrites # "never"
    /\ LET response == SuccessResponse(calls[c], calls[c].output)
       IN Return(c, response,
                 <<Fired("response", response.requestId, c, activeRequests)>>)
    /\ UNCHANGED <<initialized, providers, currentModel, aborted, conversations, memory>>
    /\ lastCancel' = NoCancel /\ UNCHANGED <<cancelledAt, env, memvars, agentService>>

CancelFiresEnd(requestId) ==
    /\ IF requestId \in DOMAIN activeRequests
       THEN /\ aborted' = aborted \cup {activeRequests[requestId]}
            /\ activeRequests' = MapDelete(activeRequests, requestId)
       ELSE UNCHANGED <<aborted, activeRequests>>
    /\ lastCancel' = [id |-> requestId, found |-> requestId \in DOMAIN activeRequests,
                       outcome |-> "returned"]
    /\ LET hit == {c \in DOMAIN calls : Running(c) /\ calls[c].req.id = requestId}
       IN cancelledAt' = [c \in DOMAIN cancelledAt \cup hit |->
                            IF c \in DOMAIN cancelledAt THEN cancelledAt[c]
                            ELSE Stage(c)]
    /\ events' = Append(events, Fired("end", requestId, 0, activeRequests'))
    /\ UNCHANGED <<initialized, providers, currentModel, calls, conversations, memory,
                   env, memvars, agentService>>

\* cancel(requestId)
Cancel(requestId) ==
    /\ IF requestId \in DOMAIN activeRequests
       THEN /\ aborted' = aborted \cup {activeRequests[requestId]}
            /\ activeRequests' = MapDelete(activeRequests, requestId)
       ELSE UNCHANGED <<aborted, activeRequests>>
    /\ lastCancel' = [id |-> requestId, found |-> requestId \in DOMAIN activeRequests,
                       outcome |-> "returned"]
    /\ LET hit == {c \in DOMAIN calls : Running(c) /\ calls[c].req.id = requestId}
       IN cancelledAt' = [c \in DOMAIN cancelledAt \cup hit |->
                            IF c \in DOMAIN cancelledAt THEN cancelledAt[c]
                            ELSE Stage(c)]
    /\ UNCHANGED <<initialized, providers, currentModel, calls, events, conversations,
                   memory, env, memvars, agentService>>

Next ==
    \/ \E r \in Requests : Execute(r)
    \/ \E c \in 1 .. MaxCalls : SelectModelDone(c)
    \/ \E c \in 1 .. MaxCalls : GatherContextDone(c)
    \/ \E c \in 1 .. MaxCalls : PrepareModelRequestDone(c)
    \/ \E c \in 1 .. MaxCalls, ok \in BOOLEAN : ExecuteToolDone(c, ok)
    \/ \E c \in 1 .. MaxCalls : ExecuteToolsDone(c)
    \/ \E c \in 1 .. MaxCalls :
         \E outcome \in [ok : BOOLEAN, text : {"Hugging Face response", "answer",
                AbortMessage, "API error", "provider not implemented",
                "Provider not found"}] : ModelCallDone(c, outcome)
    \/ \E c \in 1 .. MaxCalls : EnhanceResponseDone(c)
    \/ \E c \in 1 .. MaxCalls : StoreInteractionDone(c)
    \/ \E requestId \in Ids : Cancel(requestId)

Spec == Init /\ [][Next]_vars

(***************************************************************************)
(* Progress.  The event loop resumes an execute call whenever the promise  *)
(* it awaits has settled, so every step of a call that waits on the        *)
(* program itself is taken once it can be.  The model call settles by      *)
(* itself where the provider does not wait for the network: the Hugging    *)
(* Face provider resolves after its timer, the providers without an        *)
(* implementation throw at once, and fetch rejects once its signal is      *)
(* aborted.  A fetch whose signal is not aborted settles when the endpoint *)
(* answers, which nothing in the program brings about.                     *)
(***************************************************************************)
PipelineStep(c) ==
    \/ SelectModelDone(c)
    \/ GatherContextDone(c)
    \/ PrepareModelRequestDone(c)
    \/ \E ok \in BOOLEAN : ExecuteToolDone(c, ok)
    \/ ExecuteToolsDone(c)
    \/ EnhanceResponseDone(c)
    \/ StoreInteractionDone(c)

SettlesByItself(c) ==
    /\ c \in DOMAIN calls
    /\ \/ calls[c].model.provider \notin {"ollama", "openai"}
       \/ c \in aborted
    /\ \E outcome \in ModelManager_execute(providers, calls[c].model.provider,
                                            c \in aborted) : ModelCallDone(c, outcome)

LiveSpec ==
    /\ Init /\ [][Next]_vars
    /\ \A c \in 1 .. MaxCalls : WF_vars(PipelineStep(c)) /\ WF_vars(SettlesByItself(c))

(***************************************************************************)
(* One execute call in every surrounding: the request ranges over every    *)
(* request type and over preferred models, and the initial state over the  *)
(* provider registrations, the Ollama endpoint's answers, the configured   *)
(* API keys (SelectionSpec) and the enabled-list of tools (ToolSpec).      *)
(***************************************************************************)
AllTypes == {"chat", "command", "analysis", "refactor", "debug", "test", "other"}

PreferredModels == {"none", "gpt-4o", "gpt-4", "codellama:7b", "mistral"}

SingleRequests == [id : {"r1"}, type : AllTypes, model : PreferredModels]

\* how many providers initializeProviders registered before it stopped
RegisteredCounts == {0, 1, 2, 3, 7}

OllamaAnswers ==
    {OllamaDown,
     [ok |-> TRUE, models |-> <<>>],
     [ok |-> TRUE, models |-> <<"llama3">>],
     [ok |-> TRUE, models |-> <<"codellama:13b">>],
     [ok |-> TRUE, models |-> <<"codellama:7b-instruct", "codellama:7b">>]}

ToolNames == {Tools[i].name : i \in DOMAIN Tools}

ModelOutcomes ==
    [ok : BOOLEAN, text : {"Hugging Face response", "answer", AbortMessage,
                           "API error", "provider not implemented", "Provider not found"}]

SingleInit(counts, answers, keys, enabled, writes) ==
    /\ initialized = 4
    /\ \E n \in counts : providers = SubSeq(ProviderNames, 1, n)
    /\ currentModel = "none"
    /\ activeRequests = EmptyMap
    /\ aborted = {}
    /\ calls = <<>>
    /\ events = <<>>
    /\ conversations = [x \in Ids |-> <<>>]
    /\ memory = <<>>
    /\ lastCancel = NoCancel
    /\ cancelledAt = EmptyMap
    /\ ollamaTags \in answers
    /\ apiKeys \in keys
    /\ enabledTools \in enabled
    /\ fileWrites \in writes
    /\ clock = 0
    /\ clears = 0
    /\ returned = NothingReturned
    /\ found = NothingFound
    /\ AgentServiceInit

SingleNext ==
    \/ \E r \in SingleRequests : calls = <<>> /\ Execute(r)
    \/ SelectModelDone(1)
    \/ GatherContextDone(1)
    \/ PrepareModelRequestDone(1)
    \/ \E ok \in BOOLEAN : ExecuteToolDone(1, ok)
    \/ ExecuteToolsDone(1)
    \/ \E outcome \in ModelOutcomes : ModelCallDone(1, outcome)
    \/ EnhanceResponseDone(1)
    \/ StoreInteractionDone(1)

SelectionInit ==
    SingleInit(RegisteredCounts, OllamaAnswers, SUBSET {"huggingface", "openai"}, {{}},
               {"ok"})

SelectionSpec == SelectionInit /\ [][SingleNext]_vars

ToolInit ==
    SingleInit({7}, {OllamaDown}, {{"huggingface", "openai"}}, SUBSET ToolNames, {"ok"})

ToolSpec == ToolInit /\ [][SingleNext]_vars

\* one execute call where the write of the memory file succeeds, fails, or never
\* settles; the event loop resumes the call whenever what it awaits has settled
PersistInit ==
    SingleInit({7}, {OllamaDown}, {{"huggingface", "openai"}}, {{}},
               {"ok", "fails", "never"})

PersistSpec ==
    /\ PersistInit /\ [][SingleNext]_vars
    /\ WF_vars(PipelineStep(1)) /\ WF_vars(SettlesByItself(1))

(***************************************************************************)
(* The memory system on its own: storeInteraction, getConversationHistory, *)
(* clearMemory and searchRelevantKnowledge called directly.  A text is the *)
(* sequence of tokens toLowerCase().split(/\W+/) makes of it.  Date.now()  *)
(* does not go backwards.  The initial state is the one after              *)
(* loadPersistedMemory has settled: a conversation is empty or holds what  *)
(* an earlier session persisted.                                           *)
(***************************************************************************)
\* storeInteraction up to its first await: the two messages are pushed onto the
\* conversation of request.id and extractKnowledge puts its entry into the memory
StoreInteraction(id, requestContent, responseContent) ==
    /\ conversations' = [conversations EXCEPT ![id] =
           Pushed(@, requestContent, responseContent, clock)]
    /\ memory' = Append(memory, KnowledgeEntry(requestContent, responseContent))
    /\ UNCHANGED <<agentService, orchestrator, env, memvars, agentService>>

\* getConversationHistory(requestId)
GetConversationHistory(requestId) ==
    /\ returned' = [returned EXCEPT ![requestId] =
           [history |-> conversations[requestId], clears |-> clears]]
    /\ UNCHANGED <<agentService, orchestrator, env, conversations, memory, clock, clears, found>>

ClearTypes == {"conversations", "knowledge", "patterns", "graph", "all"}

\* clearMemory(type); code patterns and the knowledge graph are not part of the
\* model's state
ClearMemory(type) ==
    /\ conversations' = IF type \in {"conversations", "all"}
                        THEN [x \in Ids |-> <<>>] ELSE conversations
    /\ memory' = IF type = "knowledge"
                 THEN SelectSeq(memory, LAMBDA e : e.type # "knowledge")
                 ELSE IF type = "all" THEN <<>> ELSE memory
    /\ clears' = clears + 1
    /\ UNCHANGED <<agentService, orchestrator, env, clock, returned, found>>

\* time passes
Tick ==
    /\ clock' = clock + 1
    /\ UNCHANGED <<agentService, orchestrator, env, conversations, memory, clears, returned, found>>

\* JSON.stringify(entry.content).toLowerCase().split(/\W+/): the words of the
\* request and of the response, the key names, and the empty token the braces
\* and quotes leave at both ends
ContentWords(entry) ==
    {"", "request", "response"} \cup SeqRange(entry.request) \cup SeqRange(entry.response)

\* calculateRelevance: matches / queryWords.length, kept as a fraction
calculateRelevance(query, words) ==
    [matches |-> Cardinality({i \in DOMAIN query : query[i] \in words}),
     of |-> Len(query)]

\* a.relevance > b.relevance, that is b.relevance - a.relevance < 0
Greater(a, b) == a.matches * b.of > b.matches * a.of

\* relevance > 0.3
PassesThreshold(relevance) == relevance.matches * 10 > 3 * relevance.of

\* the loop over this.memory.entries(), in insertion order; the knowledge graph
\* has no nodes and adds nothing
RECURSIVE Candidates(_, _, _)
Candidates(query, mem, i) ==
    IF i > Len(mem) THEN <<>>
    ELSE LET relevance == calculateRelevance(query, ContentWords(mem[i]))
         IN (IF mem[i].type \in {"knowledge", "pattern"} /\ PassesThreshold(relevance)
             THEN <<[entry |-> i, relevance |-> relevance]>> ELSE <<>>)
            \o Candidates(query, mem, i + 1)

RECURSIVE InsertBeforeEqual(_, _)
InsertBeforeEqual(x, sorted) ==
    IF sorted = <<>> THEN <<x>>
    ELSE IF ~Greater(Head(sorted).relevance, x.relevance) THEN <<x>> \o sorted
    ELSE <<Head(sorted)>> \o InsertBeforeEqual(x, Tail(sorted))

\* where a stable sort by (a, b) => b.relevance - a.relevance puts x, which came
\* after everything in sorted: behind every element that is not smaller
RECURSIVE Insert(_, _)
Insert(x, sorted) ==
    IF sorted = <<>> THEN <<x>>
    ELSE IF Greater(x.relevance, Head(sorted).relevance) THEN <<x>> \o sorted
    ELSE <<Head(sorted)>> \o Insert(x, Tail(sorted))

\* results.sort((a, b) => b.relevance - a.relevance)
RECURSIVE SortByRelevance(_, _)
SortByRelevance(results, sorted) ==
    IF results = <<>> THEN sorted
    ELSE SortByRelevance(Tail(results), Insert(Head(results), sorted))

\* .slice(0, 10)
Slice(results) == SubSeq(results, 1, IF Len(results) < 10 THEN Len(results) ELSE 10)

searchRelevantKnowledge(query, mem) ==
    Slice(SortByRelevance(Candidates(query, mem, 1), <<>>))

\* searchRelevantKnowledge(query)
SearchRelevantKnowledge(query) ==
    /\ found' = [query |-> query, results |-> searchRelevantKnowledge(query, memory)]
    /\ UNCHANGED <<agentService, orchestrator, env, conversations, memory, clock, clears, returned>>

MemoryInit(persisted) ==
    /\ initialized = 4
    /\ providers = ProviderNames
    /\ currentModel = "none"
    /\ activeRequests = EmptyMap
    /\ aborted = {}
    /\ calls = <<>>
    /\ events = <<>>
    /\ conversations \in [Ids -> persisted]
    /\ memory = <<>>
    /\ lastCancel = NoCancel
    /\ cancelledAt = EmptyMap
    /\ ollamaTags = OllamaDown
    /\ apiKeys = {"huggingface", "openai"}
    /\ enabledTools = {}
    /\ fileWrites = "ok"
    /\ clock = 0
    /\ clears = 0
    /\ returned = NothingReturned
    /\ found = NothingFound
    /\ AgentServiceInit

\* what an earlier session may have left in a conversation
PersistedHistories == {<<>>, Pushed(<<>>, <<"earlier">>, <<"answer">>, 0)}

HistoryInit == MemoryInit(PersistedHistories)

HistoryNext ==
    \/ \E id \in Ids :
          /\ Len(conversations[id]) < 2 * MaxStored
          /\ StoreInteraction(id, <<id, "content">>, <<"answer">>)
    \/ \E id \in Ids : GetConversationHistory(id)
    \/ \E type \in ClearTypes : clears < MaxClears /\ ClearMemory(type)
    \/ clock < MaxClock /\ Tick

MemorySpec == HistoryInit /\ [][HistoryNext]_vars

\* request contents stored, and queries searched for
SearchContents ==
    {<<"i", "got", "a", "database", "connection", "error", "today">>,
     <<"database", "timeout">>}

Queries ==
    {<<"database", "error">>,
     <<"quantum", "physics">>,
     <<"timeout", "error", "again">>,
     <<"database", "connection", "error", "in", "the", "nightly", "batch", "job",
       "last", "week">>}

SearchInit == MemoryInit({<<>>})

\* interactions are stored, then the knowledge is searched
SearchNext ==
    \/ \E content \in SearchContents :
          /\ Len(memory) < MaxEntries /\ found = NothingFound
          /\ StoreInteraction("r1", content, <<"answer">>)
    \/ \E query \in Queries : SearchRelevantKnowledge(query)

SearchSpec == SearchInit /\ [][SearchNext]_vars

(***************************************************************************)
(* AgentService and Agent.  createAgent has no await and is one action;    *)
(* removeAgent, startAgent, stopAgent and executeTask are asynchronous     *)
(* functions, and every call of one is an entry of ops whose pc names the  *)
(* promise it awaits.  A call of startAgent or stopAgent made from inside  *)
(* executeTask or removeAgent is part of the caller's entry.  The          *)
(* collaborators (task planner, task manager) are taken to resolve;        *)
(* agent.initialize() and agent.execute() resolve or reject.               *)
(***************************************************************************)
\* a call of kind on agent id that now waits at pc ("done": it resolved without
\* waiting, "failed": it rejected)
Called(kind, id, pc) == ops' = Append(ops, [kind |-> kind, id |-> id, pc |-> pc])

Moves(o, pc) == ops' = [ops EXCEPT ![o].pc = pc]

Waiting(o, pc) == o \in DOMAIN ops /\ ops[o].pc = pc

\* createAgent(config): generateAgentId gives an id that was never used
CreateAgent(id) ==
    /\ id \notin created
    /\ created' = created \cup {id}
    /\ agents' = agents \cup {id}
    /\ UNCHANGED <<activeAgents, isRunning, currentTask, initializeCalls, startedFired,
                   ops, startedTasks, stoppedTasks>>
    /\ UNCHANGED <<orchestrator, env, memvars, conversations, memory>>

\* Agent.stop() up to its first await, called from stopAgent: with a current task
\* it calls taskManager.stopTask and waits, without one it clears the flag at once
AgentStopCalled(id) ==
    IF currentTask[id] # NoTask
    THEN /\ stoppedTasks' = stoppedTasks \cup {currentTask[id]}
         /\ UNCHANGED <<isRunning, currentTask>>
    ELSE /\ isRunning' = [isRunning EXCEPT ![id] = FALSE]
         /\ UNCHANGED <<currentTask, stoppedTasks>>

StopWaitsAt(id) == IF currentTask[id] # NoTask THEN "agentStopTask" ELSE "stop"

\* removeAgent(id) up to its first await
RemoveAgent(id) ==
    /\ Len(ops) < MaxOps
    /\ IF id \notin agents
       THEN /\ Called("removeAgent", id, "done")
            /\ UNCHANGED <<agents, isRunning, currentTask, stoppedTasks>>
       ELSE IF id \in activeAgents
       THEN /\ Called("removeAgent", id, StopWaitsAt(id))
            /\ AgentStopCalled(id)
            /\ UNCHANGED agents
       ELSE /\ Called("removeAgent", id, "done")
            /\ agents' = agents \ {id}
            /\ UNCHANGED <<isRunning, currentTask, stoppedTasks>>
    /\ UNCHANGED <<activeAgents, created, initializeCalls, startedFired, startedTasks>>
    /\ UNCHANGED <<orchestrator, env, memvars, conversations, memory>>

\* startAgent(id) up to its first await
StartAgent(id) ==
    /\ Len(ops) < MaxOps
    /\ IF id \notin agents
       THEN Called("startAgent", id, "failed") /\ UNCHANGED initializeCalls
       ELSE IF id \in activeAgents
       THEN Called("startAgent", id, "done") /\ UNCHANGED initializeCalls
       ELSE /\ Called("startAgent", id, "initialize")
            /\ initializeCalls' = [initializeCalls EXCEPT ![id] = @ + 1]
    /\ UNCHANGED <<agents, activeAgents, created, isRunning, currentTask, startedFired,
                   startedTasks, stoppedTasks>>
    /\ UNCHANGED <<orchestrator, env, memvars, conversations, memory>>

\* stopAgent(id) up to its first await
StopAgent(id) ==
    /\ Len(ops) < MaxOps
    /\ IF id \in activeAgents /\ id \in agents
       THEN Called("stopAgent", id, StopWaitsAt(id)) /\ AgentStopCalled(id)
       ELSE /\ Called("stopAgent", id, "done")
            /\ UNCHANGED <<isRunning, currentTask, stoppedTasks>>
    /\ UNCHANGED <<agents, activeAgents, created, initializeCalls, startedFired,
                   startedTasks>>
    /\ UNCHANGED <<orchestrator, env, memvars, conversations, memory>>

\* executeTask(agentId, ...) up to its first await: startAgent if the agent is not
\* active, else taskPlanner.planTask
ExecuteTask(id) ==
    /\ Len(ops) < MaxOps
    /\ IF id \notin agents
       THEN Called("executeTask", id, "failed") /\ UNCHANGED initializeCalls
       ELSE IF id \in activeAgents
       THEN Called("executeTask", id, "planTask") /\ UNCHANGED initializeCalls
       ELSE /\ Called("executeTask", id, "initialize")
            /\ initializeCalls' = [initializeCalls EXCEPT ![id] = @ + 1]
    /\ UNCHANGED <<agents, activeAgents, created, isRunning, currentTask, startedFired,
                   startedTasks, stoppedTasks>>
    /\ UNCHANGED <<orchestrator, env, memvars, conversations, memory>>

\* await agent.initialize() settles in startAgent: Agent.initialize sets _isRunning,
\* startAgent adds the id to _activeAgents and fires onAgentStarted; executeTask
\* goes on to taskPlanner.planTask
InitializeSettles(o, ok) ==
    /\ Waiting(o, "initialize")
    /\ LET id == ops[o].id
       IN IF ok
          THEN /\ isRunning' = [isRunning EXCEPT ![id] = TRUE]
               /\ activeAgents' = activeAgents \cup {id}
               /\ startedFired' = [startedFired EXCEPT ![id] = @ + 1]
               /\ Moves(o, IF ops[o].kind = "executeTask" THEN "planTask" ELSE "done")
          ELSE /\ Moves(o, "failed")
               /\ UNCHANGED <<isRunning, activeAgents, startedFired>>
    /\ UNCHANGED <<agents, created, currentTask, initializeCalls, startedTasks,
                   stoppedTasks>>
    /\ UNCHANGED <<orchestrator, env, memvars, conversations, memory>>

\* await this.taskManager.stopTask(...) resolves in Agent.stop
AgentStopTaskSettles(o) ==
    /\ Waiting(o, "agentStopTask")
    /\ isRunning' = [isRunning EXCEPT ![ops[o].id] = FALSE]
    /\ currentTask' = [currentTask EXCEPT ![ops[o].id] = NoTask]
    /\ Moves(o, "stop")
    /\ UNCHANGED <<agents, activeAgents, created, initializeCalls, startedFired,
                   startedTasks, stoppedTasks>>
    /\ UNCHANGED <<orchestrator, env, memvars, conversations, memory>>

\* await agentInstance.stop() resolves in stopAgent: the id leaves _activeAgents and
\* onAgentStopped fires; removeAgent then deletes the agent
StopSettles(o) ==
    /\ Waiting(o, "stop")
    /\ LET id == ops[o].id
       IN /\ activeAgents' = activeAgents \ {id}
          /\ initializeCalls' = [initializeCalls EXCEPT ![id] = 0]
          /\ startedFired' = [startedFired EXCEPT ![id] = 0]
          /\ agents' = IF ops[o].kind = "removeAgent" THEN agents \ {id} ELSE agents
    /\ Moves(o, "done")
    /\ UNCHANGED <<created, isRunning, currentTask, startedTasks, stoppedTasks>>
    /\ UNCHANGED <<orchestrator, env, memvars, conversations, memory>>

\* await this.taskPlanner.planTask(...) resolves; taskManager.startTask is called
PlanTaskSettles(o) ==
    /\ Waiting(o, "planTask")
    /\ startedTasks' = startedTasks \cup {o}
    /\ Moves(o, "startTask")
    /\ UNCHANGED <<agents, activeAgents, created, isRunning, currentTask, initializeCalls,
                   startedFired, stoppedTasks>>
    /\ UNCHANGED <<orchestrator, env, memvars, conversations, memory>>

\* await this.taskManager.startTask(...) resolves; agent.execute is called and
\* throws if the agent is not running, else takes the task as its current one
StartTaskSettles(o) ==
    /\ Waiting(o, "startTask")
    /\ IF isRunning[ops[o].id]
       THEN /\ currentTask' = [currentTask EXCEPT ![ops[o].id] = o]
            /\ Moves(o, "execute")
       ELSE Moves(o, "failed") /\ UNCHANGED currentTask
    /\ UNCHANGED <<agents, activeAgents, created, isRunning, initializeCalls,
                   startedFired, startedTasks, stoppedTasks>>
    /\ UNCHANGED <<orchestrator, env, memvars, conversations, memory>>

\* await agent.execute(task, context) settles: its finally block has cleared the
\* current task; on success executeTask calls taskManager.stopTask, on failure the
\* rejection leaves executeTask
ExecuteSettles(o, ok) ==
    /\ Waiting(o, "execute")
    /\ currentTask' = [currentTask EXCEPT ![ops[o].id] = NoTask]
    /\ IF ok
       THEN stoppedTasks' = stoppedTasks \cup {o} /\ Moves(o, "stopTask")
       ELSE Moves(o, "failed") /\ UNCHANGED stoppedTasks
    /\ UNCHANGED <<agents, activeAgents, created, isRunning, initializeCalls,
                   startedFired, startedTasks>>
    /\ UNCHANGED <<orchestrator, env, memvars, conversations, memory>>

\* await this.taskManager.stopTask(...) resolves in executeTask, which returns
StopTaskSettles(o) ==
    /\ Waiting(o, "stopTask")
    /\ Moves(o, "done")
    /\ UNCHANGED <<agents, activeAgents, created, isRunning, currentTask, initializeCalls,
                   startedFired, startedTasks, stoppedTasks>>
    /\ UNCHANGED <<orchestrator, env, memvars, conversations, memory>>

\* a step of the call o that the event loop takes once what o awaits has settled
AgentStep(o) ==
    \/ \E ok \in BOOLEAN : InitializeSettles(o, ok)
    \/ AgentStopTaskSettles(o)
    \/ StopSettles(o)
    \/ PlanTaskSettles(o)
    \/ StartTaskSettles(o)
    \/ \E ok \in BOOLEAN : ExecuteSettles(o, ok)
    \/ StopTaskSettles(o)

AgentInit == MemoryInit({<<>>})

AgentNext ==
    \/ \E id \in AgentIds : CreateAgent(id)
    \/ \E id \in AgentIds : RemoveAgent(id)
    \/ \E id \in AgentIds : StartAgent(id)
    \/ \E id \in AgentIds : StopAgent(id)
    \/ \E id \in AgentIds : ExecuteTask(id)
    \/ \E o \in 1 .. MaxOps : AgentStep(o)

\* every promise a call awaits is taken to settle, and the event loop then
\* resumes the call
AgentSpec ==
    /\ AgentInit /\ [][AgentNext]_vars
    /\ \A o \in 1 .. MaxOps : WF_vars(AgentStep(o))

(***************************************************************************)
(* Helpers of the properties.                                              *)
(***************************************************************************)
Done(c) == c \in DOMAIN calls /\ calls[c].pc = "done"

HasError(response) == "error" \in response.keys

EventsOf(c, kind) ==
    {i \in DOMAIN events : events[i].call = c /\ events[i].kind = kind}

ErrorMessages ==
    {TypeErrorMessage, NoModelsMessage, AbortMessage, "API error",
     "provider not implemented", "Provider not found"}

(***************************************************************************)
(* C1.  Every execute call resolves exactly once, and the Response it      *)
(* resolves to carries the id of its own request as requestId, on the      *)
(* success path and on every failure path.                                 *)
(***************************************************************************)
C1_ExecuteReturnsOwnResponse ==
    \A c \in DOMAIN calls :
        /\ calls[c].returns = IF Done(c) THEN 1 ELSE 0
        /\ Done(c) => /\ calls[c].response # NoResponse
                      /\ calls[c].response.requestId = calls[c].req.id
        /\ ~Done(c) => calls[c].response = NoResponse

C1_Witness ==
    \E c, d \in DOMAIN calls :
        /\ Done(c) /\ ~HasError(calls[c].response)
        /\ Done(d) /\ HasError(calls[d].response)
        /\ calls[c].req.id # calls[d].req.id

(***************************************************************************)
(* C2.  An execute call whose id is already in the in-flight map is        *)
(* rejected with DuplicateRequest before anything changes: the map keeps   *)
(* the first call's controller and no request-started event fires.         *)
(***************************************************************************)
C2_DuplicateRejected ==
    [][\A r \in Requests :
         (Execute(r) /\ r.id \in DOMAIN activeRequests)
            => /\ activeRequests' = activeRequests
               /\ events' = events
               /\ calls'[Len(calls')].response.error = "DuplicateRequest"]_vars

(***************************************************************************)
(* C3.  Every execute call fires the request-ended event with its id       *)
(* exactly once, whatever the outcome, and when the event fires the id is  *)
(* no longer in the in-flight map.                                         *)
(***************************************************************************)
C3_EndedOnceAfterRemoval ==
    \A c \in DOMAIN calls :
        /\ Cardinality(EventsOf(c, "end")) = IF Done(c) THEN 1 ELSE 0
        /\ \A i \in EventsOf(c, "end") :
              /\ events[i].id = calls[c].req.id
              /\ events[i].id \notin events[i].active

C3_Witness ==
    \E c, d \in DOMAIN calls :
        /\ Done(c) /\ ~HasError(calls[c].response)
        /\ Done(d) /\ HasError(calls[d].response) /\ d \in DOMAIN cancelledAt
        /\ EventsOf(c, "end") # {} /\ EventsOf(d, "end") # {}

(***************************************************************************)
(* C4.  For each execute call the events fire in the order request-started,*)
(* response-received (only when the request succeeded), request-ended,     *)
(* whatever other calls do in between.                                     *)
(***************************************************************************)
C4_EventOrder ==
    \A c \in DOMAIN calls :
        /\ Cardinality(EventsOf(c, "start")) = 1
        /\ Cardinality(EventsOf(c, "response")) =
              IF Done(c) /\ ~HasError(calls[c].response) THEN 1 ELSE 0
        /\ \A i \in EventsOf(c, "start") :
              \A j \in EventsOf(c, "response") \cup EventsOf(c, "end") : i < j
        /\ \A i \in EventsOf(c, "response") : \A j \in EventsOf(c, "end") : i < j

\* the events of two successful calls interleave
C4_Witness ==
    \E c, d \in DOMAIN calls :
        /\ c # d
        /\ Done(c) /\ ~HasError(calls[c].response)
        /\ Done(d) /\ ~HasError(calls[d].response)
        /\ \E i \in EventsOf(c, "start"), j \in EventsOf(d, "start"),
              k \in EventsOf(d, "end"), l \in EventsOf(c, "response") :
                 i < j /\ j < k /\ k < l

(***************************************************************************)
(* C5.  Every id in getStatus().activeRequests belongs to an execute call  *)
(* that has started and not yet returned; once execute for id X has        *)
(* returned, X is in activeRequests only if an execute with id X was       *)
(* started after that return.                                              *)
(***************************************************************************)
C5_ActiveRequestsAreRunning ==
    /\ \A x \in getStatus.activeRequests :
          \E c \in DOMAIN calls : Running(c) /\ calls[c].req.id = x
    /\ \A c \in DOMAIN calls :
          (Done(c) /\ calls[c].req.id \in getStatus.activeRequests)
             => \E d \in DOMAIN calls :
                   /\ Running(d) /\ calls[d].req.id = calls[c].req.id
                   /\ \A i \in EventsOf(c, "end"), j \in EventsOf(d, "start") : i < j

C5_Witness ==
    \E c, d \in DOMAIN calls :
        /\ Done(c) /\ calls[c].req.id \notin getStatus.activeRequests
        /\ Running(d) /\ calls[d].req.id \in getStatus.activeRequests

(***************************************************************************)
(* C6.  If cancel(X) is called while execute for X is in flight, the       *)
(* Response returned for X has error set to the cancellation condition.    *)
(* Stated for the calls whose controller cancel aborted before their model *)
(* call settled and whose model call was made: the pending model call is   *)
(* the step that cancellation makes fail.                                  *)
(***************************************************************************)
CancelledBeforeAnswer(c) ==
    c \in DOMAIN cancelledAt /\ cancelledAt[c] = "pending" /\ c \in aborted

ModelCallSettled(c) ==
    \/ calls[c].output # <<>>
    \/ calls[c].response.error \in
          {AbortMessage, "API error", "provider not implemented", "Provider not found"}

C6_CancelledResponseCarriesAbort ==
    \A c \in DOMAIN calls :
        (Done(c) /\ CancelledBeforeAnswer(c) /\ ModelCallSettled(c))
           => /\ HasError(calls[c].response)
              /\ calls[c].response.error = AbortMessage

(***************************************************************************)
(* C7.  After cancel(X) on an in-flight X no response-received event fires *)
(* for that request.  Stated for the calls whose controller cancel aborted *)
(* before their model call settled.                                        *)
(***************************************************************************)
C7_NoResponseAfterCancel ==
    [][\A c \in DOMAIN calls :
          CancelledBeforeAnswer(c)
             => EventsOf(c, "response")' = EventsOf(c, "response")]_vars

(***************************************************************************)
(* C8.  cancel(requestId) for an id that is not in the in-flight map does  *)
(* not raise, fires no event, and leaves the map, every controller and     *)
(* every execute call as they were.                                        *)
(***************************************************************************)
C8_CancelUnknownIsNoop ==
    [][\A x \in Ids :
         (lastCancel'.id = x /\ x \notin DOMAIN activeRequests)
            => /\ lastCancel'.outcome = "returned"
               /\ UNCHANGED <<activeRequests, aborted, events, calls,
                              currentModel, conversations, memory>>]_vars

C8_Witness ==
    /\ lastCancel.id = "r2" /\ ~lastCancel.found
    /\ "r1" \in DOMAIN activeRequests
    /\ \E c \in DOMAIN calls : Running(c) /\ calls[c].req.id = "r1" /\ c \notin aborted

(***************************************************************************)
(* C9.  When selection, context assembly, tool lookup or the model call    *)
(* fails, execute returns a Response with empty content and error set to   *)
(* a message.                                                              *)
(***************************************************************************)
C9_FailureGivesErrorResponse ==
    \A c \in DOMAIN calls :
        Done(c) =>
            \/ /\ HasError(calls[c].response)
               /\ calls[c].response.content = <<>>
               /\ calls[c].response.error \in ErrorMessages
            \/ /\ ~HasError(calls[c].response)
               /\ calls[c].output # <<>>
               /\ calls[c].response.content = calls[c].output

C9_Witness ==
    \E c \in DOMAIN calls :
        /\ Done(c) /\ HasError(calls[c].response)
        /\ calls[c].response.error = "API error"
        /\ calls[c].toolResults # <<>>

(***************************************************************************)
(* C10.  The response-received event fires for a request only if its       *)
(* Response has no error: a call that returned an error Response has fired *)
(* no response-received event.                                             *)
(***************************************************************************)
C10_ResponseEventOnlyOnSuccess ==
    /\ \A c \in DOMAIN calls :
          (Done(c) /\ HasError(calls[c].response)) => EventsOf(c, "response") = {}
    /\ \A i \in DOMAIN events :
          events[i].kind = "response"
             => /\ Done(events[i].call)
                /\ ~HasError(calls[events[i].call].response)

C10_Witness ==
    \E c, d \in DOMAIN calls :
        /\ Done(c) /\ HasError(calls[c].response) /\ EventsOf(c, "response") = {}
        /\ Done(d) /\ ~HasError(calls[d].response) /\ EventsOf(d, "response") # {}

(***************************************************************************)
(* C11.  The Response of an execute call has error set if and only if      *)
(* processing failed before a model answer was obtained: a call whose      *)
(* model call returned an answer returns a Response without error, and a   *)
(* call that failed in selection, context assembly, tool lookup or the     *)
(* model call returns one with error.                                      *)
(***************************************************************************)
Answered(c) == calls[c].output # <<>>

C11_ErrorIffNoAnswer ==
    \A c \in DOMAIN calls :
        /\ calls[c].pc \in {"enhanceResponse", "storeInteraction"} => Answered(c)
        /\ calls[c].pc \in {"selectModel", "gatherContext", "prepareModelRequest",
                            "executeTools", "modelCall"} => ~Answered(c)
        /\ Done(c) => /\ HasError(calls[c].response) <=> ~Answered(c)
                      /\ HasError(calls[c].response) <=> calls[c].response.error # "none"

C11_Witness ==
    \E c, d \in DOMAIN calls :
        /\ Done(c) /\ Answered(c) /\ ~HasError(calls[c].response)
        /\ Done(d) /\ ~Answered(d) /\ calls[d].response.error = "API error"

FailedTools(c) ==
    {i \in DOMAIN calls[c].toolResults : calls[c].toolResults[i].error # "none"}

C13_ToolFailureIsRecorded ==
    \A c \in DOMAIN calls :
        /\ \A i \in DOMAIN calls[c].toolResults :
              LET t == calls[c].toolResults[i]
              IN /\ t.name = calls[c].tools[i].name
                 /\ (t.error # "none") <=> (t.result = "null")
        /\ (FailedTools(c) # {} /\ calls[c].pc # "executeTools")
              => Len(calls[c].toolResults) = Len(calls[c].tools)
        /\ Done(c) => calls[c].response.error # "Tool execution failed"
        /\ (FailedTools(c) # {} /\ Done(c))
              => /\ HasError(calls[c].response) <=> ~Answered(c)
                 /\ Answered(c) => calls[c].response.tools = calls[c].toolResults

C13_Witness ==
    \E c \in DOMAIN calls :
        /\ Done(c) /\ ~HasError(calls[c].response)
        /\ Len(calls[c].response.tools) = 2
        /\ calls[c].response.tools[1].error = "Tool execution failed"
        /\ calls[c].response.tools[1].result = "null"
        /\ calls[c].response.tools[2].error = "none"

(***************************************************************************)
(* C14.  getToolsForRequest returns exactly the registered tools whose     *)
(* capability set shares a tag with the required set of the request kind   *)
(* (general alone for an unknown kind) and, when the enabled-list is not   *)
(* empty, whose name is in that list; with a non-empty enabled-list no     *)
(* tool outside it is dispatched.                                          *)
(***************************************************************************)
PastToolLookup(c) ==
    calls[c].pc \in {"executeTools", "modelCall", "enhanceResponse", "storeInteraction"}
       \/ (Done(c) /\ calls[c].response.error \notin {TypeErrorMessage, NoModelsMessage})

RequiredTags(type) ==
    IF type \in {"chat", "command", "analysis", "refactor", "debug", "test"}
    THEN capabilityMap(type) ELSE {"general"}

Eligible(type) ==
    {t \in SeqRange(Tools) :
        /\ \E tag \in t.capabilities : tag \in RequiredTags(type)
        /\ enabledTools # {} => t.name \in enabledTools}

C14_EligibleTools ==
    \A c \in DOMAIN calls :
        /\ PastToolLookup(c)
              => /\ SeqRange(calls[c].tools) = Eligible(calls[c].req.type)
                 /\ Len(calls[c].tools) = Cardinality(Eligible(calls[c].req.type))
        /\ enabledTools # {}
              => \A i \in DOMAIN calls[c].invoked : calls[c].invoked[i].name \in enabledTools

C14_Witness ==
    \E c \in DOMAIN calls :
        /\ enabledTools = {"search_code", "database_query"}
        /\ calls[c].req.type = "debug"
        /\ Done(c)
        /\ Len(calls[c].toolResults) = 1 /\ calls[c].toolResults[1].name = "search_code"

(***************************************************************************)
(* C15.  For one request the eligible tools are invoked one at a time in   *)
(* registration order: no invocation starts before the previous one has    *)
(* finished, and toolResults holds exactly one record per eligible tool in *)
(* that same order.                                                        *)
(***************************************************************************)
RegistrationIndex(name) == CHOOSE i \in DOMAIN Tools : Tools[i].name = name

C15_ToolsOneAtATimeInOrder ==
    \A c \in DOMAIN calls :
        LET invoked == calls[c].invoked
            results == calls[c].toolResults
        IN /\ Len(results) <= Len(invoked) /\ Len(invoked) <= Len(results) + 1
           /\ \A i \in DOMAIN results : results[i].name = invoked[i].name
           /\ \A i, j \in DOMAIN invoked :
                 i < j => RegistrationIndex(invoked[i].name)
                             < RegistrationIndex(invoked[j].name)
           /\ \A i \in DOMAIN invoked : invoked[i] \in Eligible(calls[c].req.type)
           /\ (PastToolLookup(c) /\ calls[c].pc # "executeTools")
                 => {results[i].name : i \in DOMAIN results}
                       = {t.name : t \in Eligible(calls[c].req.type)}

C15_Witness ==
    \E c \in DOMAIN calls :
        /\ calls[c].pc = "executeTools"
        /\ Len(calls[c].toolResults) = 1 /\ calls[c].toolResults[1].name = "read_file"
        /\ Len(calls[c].invoked) = 2 /\ calls[c].invoked[2].name = "search_code"

(***************************************************************************)
(* C16.  When the preferred model of the request names a model that some   *)
(* registered provider currently lists, selection returns a model of that  *)
(* name from a provider that lists it, for every request kind, whatever    *)
(* the kind's table says.                                                  *)
(***************************************************************************)
ListsExactly(p, name) == name \in SeqRange(ListModels(p))

Selected(c) == calls[c].pc # "selectModel"

C16_PreferredModelSelected ==
    \A c \in DOMAIN calls :
        (/\ Selected(c)
         /\ calls[c].req.model # "none"
         /\ \E p \in SeqRange(providers) : ListsExactly(p, calls[c].req.model))
           => /\ calls[c].model.name = calls[c].req.model
              /\ calls[c].model.provider \in SeqRange(providers)
              /\ ListsExactly(calls[c].model.provider, calls[c].req.model)

(***************************************************************************)
(* C17.  When no preferred model is given, or the preferred model is found *)
(* in no provider's listing, selection walks the ordered name list of the  *)
(* request kind and returns the model for the earliest name that any       *)
(* provider lists; a later name is chosen only if every earlier name is    *)
(* listed by no provider.  A provider lists a name when one of its models  *)
(* matches it (equal to it, or containing it).                             *)
(***************************************************************************)
Listed(name) ==
    \E p \in SeqRange(providers) :
        \E i \in DOMAIN ListModels(p) : Matches(ListModels(p)[i], name)

KindTable(c) == taskModelMap(TaskTypeOf(calls[c].req.type))

TableCase(c) ==
    /\ Selected(c)
    /\ calls[c].req.model = "none" \/ ~Listed(calls[c].req.model)
    /\ \E k \in DOMAIN KindTable(c) : Listed(KindTable(c)[k])

C17_EarliestListedTableName ==
    \A c \in DOMAIN calls :
        TableCase(c)
           => \E k \in DOMAIN KindTable(c) :
                 /\ Listed(KindTable(c)[k])
                 /\ \A j \in 1 .. k - 1 : ~Listed(KindTable(c)[j])
                 /\ Matches(calls[c].model.name, KindTable(c)[k])
                 /\ calls[c].model.provider \in SeqRange(providers)
                 /\ ListsExactly(calls[c].model.provider, calls[c].model.name)

C17_Witness ==
    \E c \in DOMAIN calls :
        /\ TableCase(c)
        /\ calls[c].req.type = "chat" /\ calls[c].req.model = "mistral"
        /\ ~Listed("gpt-4o")
        /\ calls[c].model = [name |-> "codellama", provider |-> "huggingface"]

(***************************************************************************)
(* C18.  When none of the names in the kind's table is listed by any       *)
(* provider but at least one provider lists a model, selection succeeds    *)
(* and returns the first model of the union of all providers' listings     *)
(* taken in provider registration order.                                   *)
(***************************************************************************)
ListingProviders == {k \in DOMAIN providers : ListModels(providers[k]) # <<>>}

FirstOfUnion ==
    LET k == CHOOSE i \in ListingProviders : \A j \in ListingProviders : i <= j
    IN [name |-> ListModels(providers[k])[1], provider |-> providers[k]]

FallbackCase(c) ==
    /\ Selected(c)
    /\ calls[c].req.model = "none" \/ ~Listed(calls[c].req.model)
    /\ \A k \in DOMAIN KindTable(c) : ~Listed(KindTable(c)[k])
    /\ ListingProviders # {}

C18_FallbackFirstOfUnion ==
    \A c \in DOMAIN calls :
        FallbackCase(c)
           => /\ calls[c].model = FirstOfUnion
              /\ calls[c].response.error # NoModelsMessage

(***************************************************************************)
(* C19.  When no provider lists any model, selection fails with 'No models *)
(* available' and execute returns an error Response for the request        *)
(* without invoking any tool or any model provider call.                   *)
(***************************************************************************)
C19_NoModelsFailsBeforeToolsAndModel ==
    \A c \in DOMAIN calls :
        (Selected(c) /\ ListingProviders = {})
           => /\ Done(c)
              /\ calls[c].model = NoModel
              /\ HasError(calls[c].response)
              /\ calls[c].response.error = NoModelsMessage
              /\ calls[c].response.requestId = calls[c].req.id
              /\ calls[c].tools = <<>> /\ calls[c].invoked = <<>>
              /\ calls[c].toolResults = <<>>
              /\ ~Answered(c)

C19_Witness ==
    \E c \in DOMAIN calls :
        /\ providers = <<>> /\ calls[c].req.model = "gpt-4o"
        /\ Done(c) /\ calls[c].response.error = NoModelsMessage
        /\ EventsOf(c, "end") # {}

(***************************************************************************)
(* C20.  A provider whose listing call fails is skipped during selection:  *)
(* the search goes on with the remaining providers, and selection succeeds *)
(* whenever another provider lists a matching model.  The provider whose   *)
(* listing can fail is Ollama, when its endpoint does not answer.          *)
(***************************************************************************)
ListedByOther(name) ==
    \E p \in SeqRange(providers) \ {"ollama"} :
        \E i \in DOMAIN ListModels(p) : Matches(ListModels(p)[i], name)

ListingFailed == "ollama" \in SeqRange(providers) /\ ~ollamaTags.ok

C20_FailedListingSkipped ==
    \A c \in DOMAIN calls :
        (Selected(c) /\ ListingFailed)
           => /\ (calls[c].req.model # "none" /\ ListedByOther(calls[c].req.model))
                    => /\ Matches(calls[c].model.name, calls[c].req.model)
                       /\ calls[c].model.provider \in SeqRange(providers) \ {"ollama"}
              /\ (\E k \in DOMAIN KindTable(c) : ListedByOther(KindTable(c)[k]))
                    => /\ calls[c].model # NoModel
                       /\ calls[c].model.provider \in SeqRange(providers) \ {"ollama"}
                       /\ calls[c].response.error # NoModelsMessage

C20_Witness ==
    \E c \in DOMAIN calls :
        /\ Selected(c) /\ ListingFailed
        /\ calls[c].req.model = "gpt-4"
        /\ calls[c].model = [name |-> "gpt-4o", provider |-> "openai"]

(***************************************************************************)
(* C21.  A failure while persisting the interaction to the memory store    *)
(* does not fail the request: execute still returns a Response with no     *)
(* error, with the model's content, and the response-received event still  *)
(* fires.                                                                  *)
(***************************************************************************)
ModelTexts(c) ==
    {o.text : o \in {x \in ModelManager_execute(providers, calls[c].model.provider,
                                                c \in aborted) : x.ok}}

C21_PersistFailureAbsorbed ==
    \A c \in DOMAIN calls :
        (fileWrites = "fails" /\ Done(c) /\ calls[c].output # <<>>)
           => /\ ~HasError(calls[c].response)
              /\ calls[c].response.error = "none"
              /\ calls[c].response.content # <<>>
              /\ Head(calls[c].response.content) \in ModelTexts(c)
              /\ Cardinality(EventsOf(c, "response")) = 1

C21_Witness ==
    \E c \in DOMAIN calls :
        /\ fileWrites = "fails" /\ Done(c) /\ calls[c].output # <<>>
        /\ ~HasError(calls[c].response)
        /\ EventsOf(c, "response") # {}

(***************************************************************************)
(* C22.  Persisting the interaction never blocks the response: once the    *)
(* model call has answered, execute returns its Response to the caller     *)
(* even if the memory-store write never completes.                         *)
(***************************************************************************)
C22_WriteNeverBlocksResponse ==
    (1 \in DOMAIN calls /\ calls[1].output # <<>>) ~> Done(1)

(***************************************************************************)
(* C23.  After a successful execute for request id X, the conversation     *)
(* history of X ends with a user entry holding the request content         *)
(* followed by an assistant entry holding the Response content (the model  *)
(* output with the tool-result summaries appended).                        *)
(***************************************************************************)
EndsWithInteraction(history, requestContent, responseContent) ==
    LET n == Len(history)
    IN /\ n >= 2
       /\ history[n - 1].role = "user" /\ history[n - 1].content = requestContent
       /\ history[n].role = "assistant" /\ history[n].content = responseContent

C23_HistoryEndsWithInteraction ==
    [][\A c \in DOMAIN calls :
         (Running(c) /\ calls'[c].pc = "done" /\ ~HasError(calls'[c].response))
            => EndsWithInteraction(conversations'[calls[c].req.id],
                                   <<calls[c].req.id, "content">>,
                                   calls'[c].response.content)]_vars

(***************************************************************************)
(* C27.  Requests do not block one another: while one execute call is      *)
(* suspended on a model call, a tool invocation or a memory operation that *)
(* never completes, any other submitted request begins processing          *)
(* immediately and can run to its Response and request-ended event.        *)
(* Stated on states: whatever the other calls are waiting for, a further   *)
(* execute can start, and every call that has not returned can take its    *)
(* own next step.                                                          *)
(***************************************************************************)
CanStep(c) ==
    \/ ENABLED PipelineStep(c)
    \/ ENABLED (\E outcome \in ModelOutcomes : ModelCallDone(c, outcome))

Suspended(c) ==
    Running(c) /\ calls[c].pc \in {"executeTools", "modelCall", "storeInteraction"}

C27_RequestsDoNotBlock ==
    /\ Len(calls) < MaxCalls => \A r \in Requests : ENABLED Execute(r)
    /\ \A c \in DOMAIN calls : Running(c) => CanStep(c)

\* a call returned its Response and fired request-ended, having started after a
\* call that is still suspended
C27_Witness ==
    \E c, d \in DOMAIN calls :
        /\ c < d /\ Suspended(c)
        /\ Done(d) /\ ~HasError(calls[d].response)
        /\ EventsOf(d, "end") # {}

(***************************************************************************)
(* C28.  Apart from the in-flight map, no state is shared across requests: *)
(* the model named in a Response's metadata and used for that request's    *)
(* model call is the one selected for that same request, under every       *)
(* interleaving with other requests that select different models           *)
(* concurrently.                                                           *)
(***************************************************************************)
OwnSelection(c) ==
    ModelManager_selectModel(providers, TaskTypeOf(calls[c].req.type), calls[c].req.model)

AnswerOf(provider) ==
    IF provider = "huggingface" THEN "Hugging Face response" ELSE "answer"

C28_ModelIsOwnSelection ==
    \A c \in DOMAIN calls :
        /\ calls[c].model # NoModel => calls[c].model = OwnSelection(c)
        /\ calls[c].output # <<>> =>
              Head(calls[c].output) = AnswerOf(OwnSelection(c).provider)
        /\ (Done(c) /\ ~HasError(calls[c].response)) =>
              calls[c].response.metadata = OwnSelection(c)

\* a call returned successfully after another call had selected a different model
C28_Witness ==
    \E c, d \in DOMAIN calls :
        /\ Done(c) /\ ~HasError(calls[c].response)
        /\ calls[d].model # NoModel /\ calls[d].model.name # calls[c].model.name
        /\ currentModel = calls[d].model.name
        /\ calls[c].response.metadata.name # currentModel

(***************************************************************************)
(* C29.  Every execute call that has started, has not yet returned, and    *)
(* whose id has not been passed to cancel since it started has its id in   *)
(* getStatus().activeRequests, under any interleaving with other execute   *)
(* and cancel calls, including an earlier cancelled execute with the same  *)
(* id finishing its cleanup meanwhile.  Stated for the case the claim      *)
(* singles out: every other call with the id started earlier and was       *)
(* cancelled before this call started.                                     *)
(***************************************************************************)
OthersCancelledEarlier(c) ==
    \A d \in DOMAIN calls \ {c} :
        calls[d].req.id = calls[c].req.id => (d < c /\ d \in DOMAIN cancelledAt)

C29_RunningCallIsActive ==
    \A c \in DOMAIN calls :
        (Running(c) /\ c \notin DOMAIN cancelledAt /\ OthersCancelledEarlier(c))
           => calls[c].req.id \in getStatus.activeRequests

(***************************************************************************)
(* C30.  No tool is invoked for a request unless model selection and       *)
(* context assembly for that request have already succeeded, and the model *)
(* provider call of a request starts only after every eligible tool of     *)
(* that request has finished.                                              *)
(***************************************************************************)
ModelCallStarted(c) ==
    \/ calls[c].pc \in {"modelCall", "enhanceResponse", "storeInteraction"}
    \/ calls[c].output # <<>>

C30_ToolsBetweenContextAndModelCall ==
    \A c \in DOMAIN calls :
        /\ calls[c].invoked # <<>> =>
              /\ calls[c].model # NoModel
              /\ calls[c].pc \notin {"selectModel", "gatherContext"}
              /\ initialized >= 3
        /\ ModelCallStarted(c) =>
              /\ calls[c].tools = getToolsForRequest(calls[c].req.type)
              /\ calls[c].invoked = calls[c].tools
              /\ Len(calls[c].toolResults) = Len(calls[c].tools)
              /\ \A k \in DOMAIN calls[c].tools :
                    calls[c].toolResults[k].name = calls[c].tools[k].name

\* a model call started after two tools had finished, one of them with a failure
C30_Witness ==
    \E c \in DOMAIN calls :
        /\ calls[c].pc = "modelCall"
        /\ Len(calls[c].toolResults) >= 2
        /\ \E k \in DOMAIN calls[c].toolResults : calls[c].toolResults[k].error # "none"

(***************************************************************************)
(* C24.  The conversation history of an id is append-only: across any      *)
(* sequence of storeInteraction and getConversationHistory operations the  *)
(* previously returned history is a prefix of every later one, entries     *)
(* stay in non-decreasing timestamp order, and entries disappear only      *)
(* through clearMemory.                                                    *)
(***************************************************************************)
IsPrefix(s, t) == Len(s) <= Len(t) /\ SubSeq(t, 1, Len(s)) = s

InTimestampOrder(history) ==
    \A i, j \in DOMAIN history : i < j => history[i].timestamp <= history[j].timestamp

Score(i) == calculateRelevance(found.query, ContentWords(memory[i]))

Returned(i) == \E k \in DOMAIN found.results : found.results[k].entry = i

C25_ReturnedIffAtLeastThreshold ==
    (found # NothingFound /\ Len(memory) <= 10)
       => \A i \in DOMAIN memory :
             Returned(i) <=> Score(i).matches * 10 >= 3 * Score(i).of

(***************************************************************************)
(* C26.  The relevance search returns at most 10 results, ordered by       *)
(* non-increasing relevance with equal scores kept in their original       *)
(* order, and these are the highest-scoring of all candidates that pass    *)
(* the threshold.                                                          *)
(***************************************************************************)
SameScore(a, b) == a.matches * b.of = b.matches * a.of

C26_TopTenInOrder ==
    found # NothingFound =>
       LET results == found.results
       IN /\ Len(results) <= 10
          /\ \A k \in DOMAIN results :
                /\ results[k].entry \in DOMAIN memory
                /\ results[k].relevance = Score(results[k].entry)
                /\ results[k].relevance.matches * 10 >= 3 * results[k].relevance.of
          /\ \A k, l \in DOMAIN results :
                k < l => \/ Greater(results[k].relevance, results[l].relevance)
                         \/ /\ SameScore(results[k].relevance, results[l].relevance)
                            /\ results[k].entry < results[l].entry
          /\ \A i \in DOMAIN memory :
                (~Returned(i) /\ Score(i).matches * 10 > 3 * Score(i).of)
                   => /\ Len(results) = 10
                      /\ \A k \in DOMAIN results :
                            \/ Greater(results[k].relevance, Score(i))
                            \/ /\ SameScore(results[k].relevance, Score(i))
                               /\ results[k].entry < i

\* eleven entries pass, ten are returned, among them equal and different scores
C26_Witness ==
    /\ found # NothingFound /\ Len(memory) = 11 /\ Len(found.results) = 10
    /\ \A i \in DOMAIN memory : Score(i).matches * 10 > 3 * Score(i).of
    /\ \E k, l \in DOMAIN found.results :
          /\ k < l /\ found.results[k].entry > found.results[l].entry
          /\ Greater(found.results[k].relevance, found.results[l].relevance)
    /\ \E k, l \in DOMAIN found.results :
          k < l /\ SameScore(found.results[k].relevance, found.results[l].relevance)

(***************************************************************************)
(* C31.  An execute call that returns an error Response leaves the memory  *)
(* store unchanged: neither the conversation history of its id nor the set *)
(* of knowledge entries differs from their values when the call started.   *)
(* Stated as: every message and every knowledge entry was stored by a call *)
(* that did not fail, and the step on which a call returns an error        *)
(* changes neither.                                                        *)
(***************************************************************************)
HasStored(c) ==
    \/ calls[c].pc = "storeInteraction"
    \/ Done(c) /\ ~HasError(calls[c].response)

C31_FailedCallLeavesMemory ==
    /\ [](/\ Len(memory) = Cardinality({c \in DOMAIN calls : HasStored(c)})
          /\ \A x \in Ids :
                Len(conversations[x]) =
                   2 * Cardinality({c \in DOMAIN calls :
                                      HasStored(c) /\ calls[c].req.id = x}))
    /\ [][\A c \in DOMAIN calls :
            (Running(c) /\ calls'[c].pc = "done" /\ HasError(calls'[c].response))
               => conversations' = conversations /\ memory' = memory]_vars

\* a call failed at its model call, with tools run, while the memory holds what
\* another call stored
C31_Witness ==
    \E c, d \in DOMAIN calls :
        /\ Done(c) /\ HasError(calls[c].response) /\ calls[c].toolResults # <<>>
        /\ HasStored(d) /\ memory # <<>>
        /\ calls[c].req.id = calls[d].req.id

(***************************************************************************)
(* C32.  Whenever execute returns a Response with error set, that Response *)
(* carries neither tool results nor metadata, even when tools had already  *)
(* been executed for the request before the failure.                       *)
(***************************************************************************)
C32_ErrorResponseIsBare ==
    \A c \in DOMAIN calls :
        (Done(c) /\ HasError(calls[c].response))
           => /\ "tools" \notin calls[c].response.keys
              /\ "metadata" \notin calls[c].response.keys
              /\ calls[c].response.tools = <<>>
              /\ calls[c].response.metadata = NoModel

C32_Witness ==
    \E c \in DOMAIN calls :
        /\ Done(c) /\ HasError(calls[c].response)
        /\ calls[c].toolResults # <<>>
        /\ \E k \in DOMAIN calls[c].toolResults : calls[c].toolResults[k].error = "none"
        /\ calls[c].model # NoModel

(***************************************************************************)
(* C33.  If some provider lists a model whose name equals the requested    *)
(* name exactly, findModel returns a model with exactly that name: an      *)
(* exact match is never displaced by a model whose name merely contains    *)
(* the requested name, whether that model comes earlier in the same        *)
(* listing or from an earlier-registered provider.  Stated for the names   *)
(* selection hands to findModel: the preferred model of the request and    *)
(* the names of the table of its kind.                                     *)
(***************************************************************************)
RequestedNames(c) ==
    ({calls[c].req.model} \ {"none"}) \cup SeqRange(KindTable(c))

C33_ExactMatchNotDisplaced ==
    \A c \in DOMAIN calls :
        Selected(c) =>
           \A n \in RequestedNames(c) :
               (\E p \in SeqRange(providers) : ListsExactly(p, n))
                  => findModel(providers, n).name = n

(***************************************************************************)
(* C34.  Every model returned by selectModel, on the preferred-model path, *)
(* the kind-table path and the first-available path alike, is listed by a  *)
(* provider whose isAvailable() check returns true at selection time.      *)
(***************************************************************************)
C34_SelectedModelIsAvailable ==
    \A c \in DOMAIN calls :
        (Selected(c) /\ calls[c].model # NoModel)
           => /\ calls[c].model.provider \in SeqRange(providers)
              /\ ListsExactly(calls[c].model.provider, calls[c].model.name)
              /\ IsAvailable(calls[c].model.provider)

C36_ActiveAgentsAreRegistered == activeAgents \subseteq agents

(***************************************************************************)
(* C37.  Starting an agent is idempotent: between two stops of an agent,   *)
(* any number of startAgent or executeTask calls for it, sequential or     *)
(* concurrent, initialize the agent once and fire onAgentStarted at most   *)
(* once.                                                                   *)
(***************************************************************************)
C37_StartIsIdempotent ==
    \A a \in AgentIds : initializeCalls[a] <= 1 /\ startedFired[a] <= 1

(***************************************************************************)
(* C38.  In AgentService.executeTask every task that was started with      *)
(* taskManager.startTask is eventually stopped with taskManager.stopTask,  *)
(* both when agent.execute succeeds and when it fails.                     *)
(***************************************************************************)
C38_StartedTaskIsStopped ==
    \A o \in 1 .. MaxOps : (o \in startedTasks) ~> (o \in stoppedTasks)

=============================================================================
